---- MODULE Spec2Model ----
(***************************************************************************)
(* Entrance randomizer of wwrando (src/randomizers/entrances.py).          *)
(*                                                                         *)
(* The state is the randomizer object's entrance fields                    *)
(* (entrance_connections, dungeon_and_cave_island_locations,               *)
(* nested_entrance_paths), the locals of randomize_one_set_of_entrances    *)
(* while a pass is running, and the list of calls made to the stage-data   *)
(* writers (update_entrance_to_lead_to_exit and                            *)
(* update_boss_warp_out_destination).  The random source is a              *)
(* nondeterministic choice: rng.shuffle picks any permutation, rng.choice  *)
(* any index of its argument.                                              *)
(*                                                                         *)
(* The registries of lines 22-113 are abridged: two of the five dungeons   *)
(* (with their boss rooms) and NumCaves of the twenty secret caves, taken  *)
(* from a pool that keeps one entrance/exit of every kind the algorithm    *)
(* tells apart (an entrance sharing its island with a dungeon entrance, a  *)
(* no-requirement entrance, no-requirement puzzle and combat exits).       *)
(***************************************************************************)
EXTENDS Integers, Sequences, FiniteSets, TLC

VARIABLES
  options,                  \* self.options, self.dungeons_and_caves_only_start, self.dry_run
  catalog,                  \* the abridged SECRET_CAVE_ENTRANCES / SECRET_CAVE_EXITS of this run
  pc,                       \* position in randomize_entrances / randomize_one_set_of_entrances
  passes,                   \* calls of randomize_one_set_of_entrances still to make
  include,                  \* include_dungeons, include_bosses, include_caves of the running pass
  relevant_entrances,
  relevant_exits,
  remaining_exits,
  doing_progress_entrances_for_dungeons_and_caves_only_start,
  safety_entrance,
  exit_names_with_no_requirements,
  done_entrances_to_exits,
  done_exits_to_entrances,
  entrance_connections,     \* self.entrance_connections
  dungeon_and_cave_island_locations,
  nested_entrance_paths,
  stage_data_calls,         \* calls issued to the stage-data writers, in order
  error,                    \* the exception that ended the run, or NoError
  pass_start,               \* history: the self.* tables as they were when the pass began
  deferred,                 \* history: entrances postponed at line 245 during the pass
  rng_calls,                \* history: calls made to self.rng during the pass, in order
  returned                  \* the last call of a function that returns a value, with its value

vars == << options, catalog, pc, passes, include, relevant_entrances, relevant_exits,
           remaining_exits, doing_progress_entrances_for_dungeons_and_caves_only_start,
           safety_entrance, exit_names_with_no_requirements, done_entrances_to_exits,
           done_exits_to_entrances, entrance_connections,
           dungeon_and_cave_island_locations, nested_entrance_paths, stage_data_calls,
           error, pass_start, deferred, rng_calls, returned >>

\* Number of secret caves kept in the abridged registries.
NumCaves == 1

None == "None"

\* No function that returns a value has been called.
NoCall == [call |-> None, arguments |-> None, value |-> None]

\* No exception has been raised.
NoError == [message |-> None, entrance_name |-> None]

-----------------------------------------------------------------------------
(* Registries, lines 6-143.  Only the fields the randomizer's decisions    *)
(* read are kept; room numbers, spawn ids and warp-out triples are payload *)
(* of the stage-data writers.                                              *)

ZoneEntrance(entrance_name, island_name) ==
  [entrance_name |-> entrance_name, island_name |-> island_name]

is_nested(zone_entrance) == zone_entrance.island_name = None

ZoneExit(stage_name, zone_name, unique_name, boss_stage_name) ==
  [stage_name |-> stage_name, zone_name |-> zone_name,
   unique_name |-> unique_name, boss_stage_name |-> boss_stage_name]

DUNGEON_ENTRANCES ==
  << ZoneEntrance("Dungeon Entrance on Dragon Roost Island", "Dragon Roost Island"),
     ZoneEntrance("Dungeon Entrance in Tower of the Gods Sector", "Tower of the Gods") >>

BOSS_ENTRANCES ==
  << ZoneEntrance("Boss Entrance in Dragon Roost Cavern", None),
     ZoneEntrance("Boss Entrance in Tower of the Gods", None) >>

DUNGEON_EXITS ==
  << ZoneExit("M_NewD2", "Dragon Roost Cavern", "Dragon Roost Cavern", "M_DragB"),
     ZoneExit("Siren", "Tower of the Gods", "Tower of the Gods", "SirenB") >>

BOSS_EXITS ==
  << ZoneExit("M_DragB", "Gohma Boss Arena", "Gohma Boss Arena", None),
     ZoneExit("SirenB", "Gohdan Boss Arena", "Gohdan Boss Arena", None) >>

\* The secret cave entrances the abridgement draws from (lines 36-58).
CAVE_ENTRANCE_POOL ==
  << ZoneEntrance("Secret Cave Entrance on Pawprint Isle", "Pawprint Isle"),
     ZoneEntrance("Secret Cave Entrance on Dragon Roost Island", "Dragon Roost Island"),
     ZoneEntrance("Secret Cave Entrance on Pawprint Isle Side Isle", "Pawprint Isle"),
     ZoneEntrance("Secret Cave Entrance on Outset Island", "Outset Island") >>

\* The secret cave exits the abridgement draws from (lines 88-109).
CAVE_EXIT_POOL ==
  << ZoneExit("TyuTyu", "Pawprint Isle", "Pawprint Isle Chuchu Cave", None),
     ZoneExit("Cave04", "Rock Spire Isle", "Rock Spire Isle Secret Cave", None),
     ZoneExit("Cave07", "Pawprint Isle Side Isle", "Pawprint Isle Wizzrobe Cave", None),
     ZoneExit("Cave09", "Outset Island", "Savage Labyrinth", None) >>

SECRET_CAVE_ENTRANCES == catalog.SECRET_CAVE_ENTRANCES
SECRET_CAVE_EXITS == catalog.SECRET_CAVE_EXITS

DUNGEON_ENTRANCE_NAMES_WITH_NO_REQUIREMENTS ==
  << "Dungeon Entrance on Dragon Roost Island" >>
SECRET_CAVE_ENTRANCE_NAMES_WITH_NO_REQUIREMENTS ==
  << "Secret Cave Entrance on Pawprint Isle",
     "Secret Cave Entrance on Cliff Plateau Isles" >>
DUNGEON_EXIT_NAMES_WITH_NO_REQUIREMENTS ==
  << "Dragon Roost Cavern" >>
PUZZLE_SECRET_CAVE_EXIT_NAMES_WITH_NO_REQUIREMENTS ==
  << "Pawprint Isle Chuchu Cave",
     "Ice Ring Isle Secret Cave",
     "Bird's Peak Rock Secret Cave",
     "Diamond Steppe Island Warp Maze Cave" >>
COMBAT_SECRET_CAVE_EXIT_NAMES_WITH_NO_REQUIREMENTS ==
  << "Rock Spire Isle Secret Cave" >>

-----------------------------------------------------------------------------
(* Python lists and insertion-ordered dicts.                               *)

Range(s) == { s[i] : i \in 1..Len(s) }

In(x, s) == \E i \in 1..Len(s) : s[i] = x

\* list.remove(x): drops the first occurrence of x.
ListRemove(s, x) ==
  LET i == CHOOSE j \in 1..Len(s) : s[j] = x /\ \A k \in 1..(j-1) : s[k] # x
  IN  SubSeq(s, 1, i-1) \o SubSeq(s, i+1, Len(s))

\* A dict is the sequence of its items [k, v] in insertion order.
DictHas(d, k) == \E i \in 1..Len(d) : d[i].k = k
DictGet(d, k) == d[CHOOSE i \in 1..Len(d) : d[i].k = k].v
DictSet(d, k, v) ==
  IF DictHas(d, k)
  THEN [i \in 1..Len(d) |-> IF d[i].k = k THEN [k |-> k, v |-> v] ELSE d[i]]
  ELSE Append(d, [k |-> k, v |-> v])
DictKeys(d) == { d[i].k : i \in 1..Len(d) }

\* rng.shuffle(list): every rearrangement of the list is a possible outcome.
Shuffles(s) ==
  { [i \in 1..Len(s) |-> s[p[i]]] : p \in Permutations(1..Len(s)) }

\* rng.choice(list) with i the index the random source lands on.
rng_choice(s, i) == s[i]

-----------------------------------------------------------------------------
(* NestingResolver, lines 339-370.  A result is a record: status "ok" with *)
(* the list, "none" for the None of line 361, "loop" for the exception of  *)
(* line 357.                                                               *)

\* zone_entrance.entrance_name[len("Boss Entrance in "):], lines 367-368.
dungeon_name_of == 
  [ n \in { BOSS_ENTRANCES[i].entrance_name : i \in 1..Len(BOSS_ENTRANCES) } |->
      CASE n = "Boss Entrance in Dragon Roost Cavern" -> "Dragon Roost Cavern"
        [] n = "Boss Entrance in Tower of the Gods" -> "Tower of the Gods" ]

get_dungeon_start_exit_leading_to_nested_entrance(zone_entrance) ==
  LET dungeon_name == dungeon_name_of[zone_entrance.entrance_name]
      first == CHOOSE i \in 1..Len(DUNGEON_EXITS) :
                 /\ DUNGEON_EXITS[i].unique_name = dungeon_name
                 /\ \A j \in 1..(i-1) : DUNGEON_EXITS[j].unique_name # dungeon_name
  IN  DUNGEON_EXITS[first]

RECURSIVE path_to_entrance(_, _, _)
path_to_entrance(zone_entrance, done, seen_entrances) ==
  IF ~is_nested(zone_entrance)
  THEN [status |-> "ok", seen_entrances |-> Append(seen_entrances, zone_entrance)]
  ELSE IF In(zone_entrance, seen_entrances)
  THEN [status |-> "loop", seen_entrances |-> seen_entrances]
  ELSE LET dungeon_start_exit ==
             get_dungeon_start_exit_leading_to_nested_entrance(zone_entrance)
       IN  IF ~DictHas(done, dungeon_start_exit)
           THEN [status |-> "none", seen_entrances |-> Append(seen_entrances, zone_entrance)]
           ELSE path_to_entrance(DictGet(done, dungeon_start_exit), done,
                                 Append(seen_entrances, zone_entrance))

\* Lines 352-364 returning the entrances met so far where line 361 returns None.
PathAsFarAsRecorded(zone_entrance, done) ==
  LET r == path_to_entrance(zone_entrance, done, << >>)
  IN  IF r.status = "none"
      THEN [status |-> "ok", seen_entrances |-> r.seen_entrances]
      ELSE r

get_all_entrances_on_path_to_entrance(zone_entrance, done) ==
  path_to_entrance(zone_entrance, done, << >>)

\* Lines 344-350 answering the entrance itself where the chain is incomplete.
OutermostOrTheEntranceItself(zone_entrance, done) ==
  LET r == get_all_entrances_on_path_to_entrance(zone_entrance, done)
  IN  IF r.status = "loop"
      THEN [status |-> "loop", entrance |-> None]
      ELSE [status |-> "ok", entrance |-> r.seen_entrances[Len(r.seen_entrances)]]

get_outermost_entrance_for_entrance(zone_entrance, done) ==
  LET r == get_all_entrances_on_path_to_entrance(zone_entrance, done)
  IN  IF r.status = "ok"
      THEN [status |-> "ok", entrance |-> r.seen_entrances[Len(r.seen_entrances)]]
      ELSE [status |-> r.status, entrance |-> None]

\* Lines 339-342 without the unrecursion: the entrance connected to the exit.
EntranceConnectedToExit(zone_exit, done) ==
  IF ~DictHas(done, zone_exit)
  THEN [status |-> "keyerror", entrance |-> None]
  ELSE [status |-> "ok", entrance |-> DictGet(done, zone_exit)]

\* done_exits_to_entrances[zone_exit] at line 340 is a KeyError for an exit that
\* has no entrance.
get_outermost_entrance_for_exit(zone_exit, done) ==
  IF ~DictHas(done, zone_exit)
  THEN [status |-> "keyerror", entrance |-> None]
  ELSE get_outermost_entrance_for_entrance(DictGet(done, zone_exit), done)

-----------------------------------------------------------------------------
(* randomize_entrances, lines 147-165.                                     *)

Pass(d, b, c) == [include_dungeons |-> d, include_bosses |-> b, include_caves |-> c]

\* Lines 154-159 with each "Separately" value running as one pass over all its
\* categories, like the "Together" value next to it.
PassesOfSeparatelyTogether(option) ==
  CASE option = "Dungeons" -> << Pass(TRUE, FALSE, FALSE) >>
    [] option = "Nested Dungeons" -> << Pass(TRUE, TRUE, FALSE) >>
    [] option = "Secret Caves" -> << Pass(FALSE, FALSE, TRUE) >>
    [] option = "Dungeons & Secret Caves (Separately)" -> << Pass(TRUE, FALSE, TRUE) >>
    [] option = "Nested Dungeons & Secret Caves (Separately)" ->
         << Pass(TRUE, TRUE, TRUE) >>
    [] option = "Dungeons & Secret Caves (Together)" -> << Pass(TRUE, FALSE, TRUE) >>
    [] option = "Nested Dungeons & Secret Caves (Together)" -> << Pass(TRUE, TRUE, TRUE) >>
    [] OTHER -> << >>

PassesOf(option) ==
  CASE option = "Dungeons" -> << Pass(TRUE, FALSE, FALSE) >>
    [] option = "Nested Dungeons" -> << Pass(TRUE, TRUE, FALSE) >>
    [] option = "Secret Caves" -> << Pass(FALSE, FALSE, TRUE) >>
    [] option = "Dungeons & Secret Caves (Separately)" ->
         << Pass(TRUE, FALSE, FALSE), Pass(FALSE, FALSE, TRUE) >>
    [] option = "Nested Dungeons & Secret Caves (Separately)" ->
         << Pass(TRUE, TRUE, FALSE), Pass(FALSE, FALSE, TRUE) >>
    [] option = "Dungeons & Secret Caves (Together)" -> << Pass(TRUE, FALSE, TRUE) >>
    [] option = "Nested Dungeons & Secret Caves (Together)" -> << Pass(TRUE, TRUE, TRUE) >>
    [] OTHER -> << >>

EntranceRandomizerOptions ==
  { "Dungeons", "Nested Dungeons", "Secret Caves",
    "Dungeons & Secret Caves (Separately)",
    "Nested Dungeons & Secret Caves (Separately)",
    "Dungeons & Secret Caves (Together)",
    "Nested Dungeons & Secret Caves (Together)" }

NoPass == Pass(FALSE, FALSE, FALSE)

randomize_entrances ==
  /\ pc = "start"
  /\ IF options.randomize_entrances \in EntranceRandomizerOptions
     THEN /\ passes' = PassesOf(options.randomize_entrances)
          /\ pc' = "call"
          /\ error' = error
     ELSE /\ passes' = passes
          /\ pc' = "raised"
          /\ error' = [message |-> "Invalid entrance randomizer option",
                       entrance_name |-> None]
  /\ UNCHANGED << options, catalog, include, relevant_entrances, relevant_exits,
                  remaining_exits,
                  doing_progress_entrances_for_dungeons_and_caves_only_start,
                  safety_entrance, exit_names_with_no_requirements,
                  done_entrances_to_exits, done_exits_to_entrances,
                  entrance_connections, dungeon_and_cave_island_locations,
                  nested_entrance_paths, stage_data_calls, pass_start, deferred,
                  rng_calls, returned >>

-----------------------------------------------------------------------------
(* randomize_one_set_of_entrances, lines 167-234: the lists, the shuffle,  *)
(* the race-mode reorder and the choice of the safety entrance.            *)

RelevantEntrancesOf(inc) ==
  (IF inc.include_dungeons THEN DUNGEON_ENTRANCES ELSE << >>) \o
  (IF inc.include_bosses THEN BOSS_ENTRANCES ELSE << >>) \o
  (IF inc.include_caves THEN SECRET_CAVE_ENTRANCES ELSE << >>)

RelevantExitsOf(inc) ==
  (IF inc.include_dungeons THEN DUNGEON_EXITS ELSE << >>) \o
  (IF inc.include_bosses THEN BOSS_EXITS ELSE << >>) \o
  (IF inc.include_caves THEN SECRET_CAVE_EXITS ELSE << >>)

progression_caves ==
  \/ options.progression_puzzle_secret_caves
  \/ options.progression_combat_secret_caves
  \/ options.progression_savage_labyrinth

\* Lines 183-190.
DoingProgressEntrances(inc) ==
  /\ options.dungeons_and_caves_only_start
  /\ \/ inc.include_dungeons /\ options.progression_dungeons
     \/ inc.include_caves /\ progression_caves

RECURSIVE RemoveAll(_, _)
RemoveAll(s, xs) ==
  IF xs = << >> THEN s ELSE RemoveAll(ListRemove(s, Head(xs)), Tail(xs))

\* Lines 195-203 with the entrances of shared islands put behind the others.
MoveSharedIslandsLast(entrances) ==
  LET entrances_not_on_unique_islands ==
        SelectSeq(entrances, LAMBDA zone_entrance :
          \E i \in 1..Len(entrances) :
            /\ entrances[i].island_name = zone_entrance.island_name
            /\ entrances[i] # zone_entrance)
  IN  SelectSeq(entrances, LAMBDA zone_entrance :
        \A i \in 1..Len(entrances_not_on_unique_islands) :
          entrances_not_on_unique_islands[i] # zone_entrance)
      \o entrances_not_on_unique_islands

\* Lines 195-203.
MoveSharedIslandsFirst(entrances) ==
  LET entrances_not_on_unique_islands ==
        SelectSeq(entrances, LAMBDA zone_entrance :
          \E i \in 1..Len(entrances) :
            /\ entrances[i].island_name = zone_entrance.island_name
            /\ entrances[i] # zone_entrance)
  IN  entrances_not_on_unique_islands \o
      RemoveAll(entrances, entrances_not_on_unique_islands)

\* Lines 192-203: relevant_entrances after the reorder, from the shuffled list.
ReorderInRaceMode(shuffled) ==
  IF options.race_mode THEN MoveSharedIslandsFirst(shuffled) ELSE shuffled

\* Lines 209-215.
EntranceNamesWithNoRequirements ==
  (IF options.progression_dungeons
   THEN DUNGEON_ENTRANCE_NAMES_WITH_NO_REQUIREMENTS ELSE << >>) \o
  (IF progression_caves
   THEN SECRET_CAVE_ENTRANCE_NAMES_WITH_NO_REQUIREMENTS ELSE << >>)

\* Lines 217-224.
ExitNamesWithNoRequirements ==
  (IF options.progression_dungeons
   THEN DUNGEON_EXIT_NAMES_WITH_NO_REQUIREMENTS ELSE << >>) \o
  (IF options.progression_puzzle_secret_caves
   THEN PUZZLE_SECRET_CAVE_EXIT_NAMES_WITH_NO_REQUIREMENTS ELSE << >>) \o
  (IF options.progression_combat_secret_caves
   THEN COMBAT_SECRET_CAVE_EXIT_NAMES_WITH_NO_REQUIREMENTS ELSE << >>)

\* Lines 226-229.
PossibleSafetyEntrances(entrances) ==
  SelectSeq(entrances, LAMBDA e : In(e.entrance_name, EntranceNamesWithNoRequirements))

\* Lines 233-234.
MoveToFront(entrances, zone_entrance) ==
  << zone_entrance >> \o ListRemove(entrances, zone_entrance)

\* The assignments that start the main loop (lines 180, 236-237).
\* A call of self.rng: shuffle (line 181) or choice (lines 230 and 290), and what
\* it was made for.
RngCall(call, for) == [call |-> call, for |-> for]

\* Lines 181 and 230: the calls made before the loop.
\* Lines 181-230 with the choice of line 230 made in every pass.
RngCallsWithSafetyChoice(doing) ==
  << RngCall("shuffle", "relevant_entrances"), RngCall("choice", "safety_entrance") >>

RngCallsBeforeLoop(doing) ==
  << RngCall("shuffle", "relevant_entrances") >>
    \o (IF doing THEN << RngCall("choice", "safety_entrance") >> ELSE << >>)

EnterLoop(inc, entrances, doing, safety, exit_names) ==
  /\ pc' = "loop"
  /\ passes' = Tail(passes)
  /\ include' = inc
  /\ relevant_entrances' = entrances
  /\ relevant_exits' = RelevantExitsOf(inc)
  /\ remaining_exits' = RelevantExitsOf(inc)
  /\ doing_progress_entrances_for_dungeons_and_caves_only_start' = doing
  /\ safety_entrance' = safety
  /\ exit_names_with_no_requirements' = exit_names
  /\ done_entrances_to_exits' = << >>
  /\ done_exits_to_entrances' = << >>
  /\ pass_start' = [entrance_connections |-> entrance_connections,
                    dungeon_and_cave_island_locations |->
                      dungeon_and_cave_island_locations,
                    stage_data_calls |-> Len(stage_data_calls)]
  /\ deferred' = {}
  /\ rng_calls' = RngCallsBeforeLoop(doing)
  /\ error' = error
  /\ UNCHANGED << options, catalog, entrance_connections,
                  dungeon_and_cave_island_locations, nested_entrance_paths,
                  stage_data_calls, returned >>

BeginPass ==
  /\ pc = "call"
  /\ passes # << >>
  /\ LET inc == Head(passes)
         doing == DoingProgressEntrances(inc)
     IN  \E shuffled \in Shuffles(RelevantEntrancesOf(inc)) :
           LET ordered == ReorderInRaceMode(shuffled)
               possible_safety_entrances == PossibleSafetyEntrances(ordered)
           IN  IF doing /\ possible_safety_entrances = << >>
               THEN \* rng.choice of an empty list raises IndexError (line 230).
                    /\ pc' = "raised"
                    /\ error' = [message |-> "IndexError", entrance_name |-> None]
                    /\ passes' = Tail(passes)
                    /\ include' = inc
                    /\ UNCHANGED << options, catalog, relevant_entrances, relevant_exits,
                          remaining_exits,
                          doing_progress_entrances_for_dungeons_and_caves_only_start,
                          safety_entrance, exit_names_with_no_requirements,
                          done_entrances_to_exits, done_exits_to_entrances,
                          entrance_connections, dungeon_and_cave_island_locations,
                          nested_entrance_paths, stage_data_calls, pass_start,
                          deferred, returned >>
                    /\ rng_calls' = RngCallsBeforeLoop(FALSE)
               ELSE IF doing
               THEN \E i \in 1..Len(possible_safety_entrances) :
                      LET safety == rng_choice(possible_safety_entrances, i)
                      IN  EnterLoop(inc, MoveToFront(ordered, safety), TRUE, safety,
                                    ExitNamesWithNoRequirements)
               ELSE EnterLoop(inc, ordered, FALSE, None, << >>)

-----------------------------------------------------------------------------
(* The main loop, lines 238-295.                                           *)

\* Lines 248-251.
SafetyCandidates(zone_entrance) ==
  IF doing_progress_entrances_for_dungeons_and_caves_only_start
     /\ zone_entrance = safety_entrance
  THEN SelectSeq(remaining_exits,
                 LAMBDA e : In(e.unique_name, exit_names_with_no_requirements))
  ELSE remaining_exits

\* Lines 253-255 without the hold-back: boss exits compete from the start.
BossExitsNotHeldBack(possible_remaining_exits) == possible_remaining_exits

\* Lines 253-255.
HoldBackBossExits(possible_remaining_exits) ==
  IF \E i \in 1..Len(possible_remaining_exits) :
       In(possible_remaining_exits[i], DUNGEON_EXITS)
  THEN SelectSeq(remaining_exits, LAMBDA e : ~In(e, BOSS_EXITS))
  ELSE possible_remaining_exits

\* Lines 277-281.
DoneEntrancesOnSameIslandLeadingToADungeon(zone_entrance) ==
  SelectSeq(done_entrances_to_exits,
            LAMBDA item : /\ item.k.island_name = zone_entrance.island_name
                          /\ In(item.v, DUNGEON_EXITS))

\* Lines 274-286 with the race-mode filter left out.
RaceModeFilterLeftOut(zone_entrance, possible_remaining_exits) ==
  possible_remaining_exits

\* Lines 274-286 with the filter applied whether or not race_mode is set.
RaceModeFilterInEveryMode(zone_entrance, possible_remaining_exits) ==
  IF DoneEntrancesOnSameIslandLeadingToADungeon(zone_entrance) # << >>
  THEN SelectSeq(possible_remaining_exits,
                 LAMBDA ex : ~In(ex, DUNGEON_EXITS \o BOSS_EXITS))
  ELSE possible_remaining_exits

\* Lines 274-286.
RaceModeFilter(zone_entrance, possible_remaining_exits) ==
  IF options.race_mode
     /\ DoneEntrancesOnSameIslandLeadingToADungeon(zone_entrance) # << >>
  THEN SelectSeq(possible_remaining_exits,
                 LAMBDA ex : ~In(ex, DUNGEON_EXITS \o BOSS_EXITS))
  ELSE possible_remaining_exits

\* possible_remaining_exits as it stands at line 288.
PossibleRemainingExits(zone_entrance) ==
  RaceModeFilter(zone_entrance, HoldBackBossExits(SafetyCandidates(zone_entrance)))

\* The entrance popped at line 239 and its resolution at line 240.
PoppedEntrance == Head(relevant_entrances)
\* Line 240 taken as always resolved: no entrance is ever postponed.
PoppedNeverPostponed == [status |-> "ok", entrance |-> PoppedEntrance]
PoppedOutermost ==
  get_outermost_entrance_for_entrance(PoppedEntrance, done_exits_to_entrances)

LoopFrame ==
  UNCHANGED << options, catalog, passes, include, relevant_exits,
               doing_progress_entrances_for_dungeons_and_caves_only_start,
               safety_entrance, exit_names_with_no_requirements,
               dungeon_and_cave_island_locations, nested_entrance_paths,
               stage_data_calls, pass_start, returned >>

\* Lines 241-246: postpone a boss entrance that is not reachable from the sea yet.
Defer ==
  /\ pc = "loop"
  /\ relevant_entrances # << >>
  /\ PoppedOutermost.status = "none"
  /\ relevant_entrances' = Append(Tail(relevant_entrances), PoppedEntrance)
  /\ deferred' = deferred \cup { PoppedEntrance }
  /\ UNCHANGED << pc, error, remaining_exits, done_entrances_to_exits,
                  done_exits_to_entrances, entrance_connections, rng_calls >>
  /\ LoopFrame

\* Line 291 forgotten: the chosen exit stays available.
RemainingNotRemoved(zone_exit) == remaining_exits

\* Line 291.
RemainingAfter(zone_exit) == ListRemove(remaining_exits, zone_exit)

\* Line 289 naming the entrance placed last instead of the one popped.
NoValidExitsNamingLastPlaced(zone_entrance) ==
  [message |-> "No valid exits to place for entrance",
   entrance_name |->
     IF done_entrances_to_exits = << >> THEN None
     ELSE done_entrances_to_exits[Len(done_entrances_to_exits)].k.entrance_name]

\* Line 289.
NoValidExits(zone_entrance) ==
  [message |-> "No valid exits to place for entrance",
   entrance_name |-> zone_entrance.entrance_name]

\* Lines 248-295 when a candidate exists.
Place ==
  /\ pc = "loop"
  /\ relevant_entrances # << >>
  /\ PoppedOutermost.status = "ok"
  /\ LET zone_entrance == PoppedEntrance
         possible_remaining_exits == PossibleRemainingExits(zone_entrance)
     IN  \E i \in 1..Len(possible_remaining_exits) :
           LET zone_exit == rng_choice(possible_remaining_exits, i)
           IN  /\ relevant_entrances' = Tail(relevant_entrances)
               /\ remaining_exits' = RemainingAfter(zone_exit)
               /\ entrance_connections' =
                    DictSet(entrance_connections, zone_entrance.entrance_name,
                            zone_exit.unique_name)
               /\ done_entrances_to_exits' =
                    DictSet(done_entrances_to_exits, zone_entrance, zone_exit)
               /\ done_exits_to_entrances' =
                    DictSet(done_exits_to_entrances, zone_exit, zone_entrance)
               /\ rng_calls' =
                    Append(rng_calls, RngCall("choice", zone_entrance.entrance_name))
  /\ UNCHANGED << pc, error, deferred >>
  /\ LoopFrame

\* Line 357 reached from line 240, or lines 288-289.
RaiseInLoop ==
  /\ pc = "loop"
  /\ relevant_entrances # << >>
  /\ PoppedOutermost.status # "none"
  /\ PoppedOutermost.status = "ok" => PossibleRemainingExits(PoppedEntrance) = << >>
  /\ pc' = "raised"
  /\ error' = IF PoppedOutermost.status = "loop"
              THEN [message |-> "Entrances are in an infinite loop",
                    entrance_name |-> None]
              ELSE NoValidExits(PoppedEntrance)
  /\ relevant_entrances' = Tail(relevant_entrances)
  /\ UNCHANGED << remaining_exits, done_entrances_to_exits, done_exits_to_entrances,
                  entrance_connections, deferred, rng_calls >>
  /\ LoopFrame

-----------------------------------------------------------------------------
(* After the loop, lines 297-337.  Each loop of the code is a fold that    *)
(* threads the tables it writes: island |-> the island table, calls |->    *)
(* the stage-data calls issued so far, error |-> NoError until a call of    *)
(* the resolver fails, which ends the pass where it stands.                 *)

StageDataCall(call, target, zone_exit, outermost_entrance) ==
  [call |-> call, target |-> target, zone_exit |-> zone_exit,
   outermost_entrance |-> outermost_entrance]

\* update_entrance_to_lead_to_exit(self, zone_entrance, zone_exit, outermost_entrance)
update_entrance_to_lead_to_exit(zone_entrance, zone_exit, outermost_entrance) ==
  StageDataCall("update_entrance_to_lead_to_exit", zone_entrance.entrance_name,
                zone_exit.unique_name, outermost_entrance.entrance_name)

\* update_boss_warp_out_destination(self, boss_stage_name, outermost_entrance)
update_boss_warp_out_destination(boss_stage_name, outermost_entrance) ==
  StageDataCall("update_boss_warp_out_destination", boss_stage_name, None,
                outermost_entrance.entrance_name)

ResolverError(status) ==
  [message |-> IF status = "loop" THEN "Entrances are in an infinite loop"
               ELSE IF status = "keyerror" THEN "KeyError"
               ELSE "AttributeError",
   entrance_name |-> None]

\* An effect of lines 299-337, for the order they come in: an entry written to
\* dungeon_and_cave_island_locations, a call that edits stage data, or the write
\* of nested_entrance_paths.
Effect(effect, call, zone_name) ==
  [effect |-> effect, call |-> call, zone_name |-> zone_name]

\* Lines 302-305 with the island write made only when stage data is edited.
AttributeOneUnlessDryRun(st, zone_entrance, zone_exit, outermost_entrance) ==
  IF st.dry_run THEN st
  ELSE [st EXCEPT
          !.island = DictSet(@, zone_exit.zone_name, outermost_entrance.island_name),
          !.calls = Append(@, update_entrance_to_lead_to_exit(
                                zone_entrance, zone_exit, outermost_entrance)),
          !.order = @ \o << Effect("island", None, zone_exit.zone_name),
                            Effect("call", "update_entrance_to_lead_to_exit",
                                   zone_exit.zone_name) >>]

\* Lines 302-305 with the call made before the island is written.
AttributeOneCallFirst(st, zone_entrance, zone_exit, outermost_entrance) ==
  [st EXCEPT
     !.island = DictSet(@, zone_exit.zone_name, outermost_entrance.island_name),
     !.calls = IF st.dry_run THEN @
               ELSE Append(@, update_entrance_to_lead_to_exit(
                                zone_entrance, zone_exit, outermost_entrance)),
     !.order = @ \o (IF st.dry_run THEN << >>
                     ELSE << Effect("call", "update_entrance_to_lead_to_exit",
                                    zone_exit.zone_name) >>)
                 \o << Effect("island", None, zone_exit.zone_name) >>]

\* Lines 302-305: one iteration of the loop of line 299.
AttributeOne(st, zone_entrance, zone_exit, outermost_entrance) ==
  [st EXCEPT
     !.island = DictSet(@, zone_exit.zone_name, outermost_entrance.island_name),
     !.calls = IF st.dry_run THEN @
               ELSE Append(@, update_entrance_to_lead_to_exit(
                                zone_entrance, zone_exit, outermost_entrance)),
     !.order = @ \o << Effect("island", None, zone_exit.zone_name) >>
                 \o (IF st.dry_run THEN << >>
                     ELSE << Effect("call", "update_entrance_to_lead_to_exit",
                                    zone_exit.zone_name) >>)]

\* Lines 299-305, from the i-th item of done_exits_to_entrances on.
RECURSIVE AttributeIslands(_, _)
AttributeIslands(i, st) ==
  IF i > Len(done_exits_to_entrances) \/ st.error # NoError THEN st
  ELSE LET zone_exit == done_exits_to_entrances[i].k
           zone_entrance == done_exits_to_entrances[i].v
           outermost == get_outermost_entrance_for_exit(zone_exit, done_exits_to_entrances)
       IN  IF outermost.status # "ok"
           THEN [st EXCEPT !.error = ResolverError(outermost.status)]
           ELSE AttributeIslands(i + 1,
                  AttributeOne(st, zone_entrance, zone_exit, outermost.entrance))

\* Lines 307-311, from the i-th boss exit on.
RECURSIVE WarpOutOfBosses(_, _)
WarpOutOfBosses(i, st) ==
  IF i > Len(BOSS_EXITS) \/ st.error # NoError \/ st.dry_run THEN st
  ELSE LET boss_exit == BOSS_EXITS[i]
           outermost == get_outermost_entrance_for_exit(boss_exit, done_exits_to_entrances)
       IN  IF outermost.status # "ok"
           THEN [st EXCEPT !.error = ResolverError(outermost.status)]
           ELSE WarpOutOfBosses(i + 1,
                  [st EXCEPT
                     !.calls = Append(@, update_boss_warp_out_destination(
                                           boss_exit.stage_name, outermost.entrance)),
                     !.order = Append(@, Effect("call",
                                 "update_boss_warp_out_destination",
                                 boss_exit.zone_name))])

\* Lines 320-323 with the condition of next(...) left out: the first boss exit.
FirstBossExit(dungeon_exit) == BOSS_EXITS[1]

\* Lines 320-323: next(zone_exit for zone_exit in BOSS_EXITS if ...).
BossExitOfDungeon(dungeon_exit) ==
  BOSS_EXITS[CHOOSE i \in 1..Len(BOSS_EXITS) :
               /\ BOSS_EXITS[i].stage_name = dungeon_exit.boss_stage_name
               /\ \A j \in 1..(i-1) :
                    BOSS_EXITS[j].stage_name # dungeon_exit.boss_stage_name]

\* Lines 312-324, from the i-th dungeon exit on.
RECURSIVE WarpOutOfDungeonBosses(_, _)
WarpOutOfDungeonBosses(i, st) ==
  IF i > Len(DUNGEON_EXITS) \/ st.error # NoError THEN st
  ELSE LET dungeon_exit == DUNGEON_EXITS[i]
           outermost_entrance == DictGet(done_exits_to_entrances, dungeon_exit)
           boss_exit == BossExitOfDungeon(dungeon_exit)
       IN  IF ~DictHas(done_exits_to_entrances, dungeon_exit)
           THEN [st EXCEPT !.error = ResolverError("keyerror")]
           ELSE WarpOutOfDungeonBosses(i + 1,
                  [st EXCEPT
                     !.calls = IF st.dry_run THEN @
                               ELSE Append(@, update_boss_warp_out_destination(
                                      dungeon_exit.boss_stage_name, outermost_entrance)),
                     !.island = DictSet(@, boss_exit.zone_name,
                                        outermost_entrance.island_name),
                     !.order = @ \o (IF st.dry_run THEN << >>
                                     ELSE << Effect("call",
                                               "update_boss_warp_out_destination",
                                               boss_exit.zone_name) >>)
                                 \o << Effect("island", None, boss_exit.zone_name) >>])

Reverse(s) == [i \in 1..Len(s) |-> s[Len(s) + 1 - i]]

\* Lines 331-336 without the reverse of line 336.
NestedPathInnermostFirst(terminal_exit) ==
  LET zone_entrance == DictGet(done_exits_to_entrances, terminal_exit)
      seen_entrances ==
        get_all_entrances_on_path_to_entrance(zone_entrance, done_exits_to_entrances)
                                                                     .seen_entrances
  IN  << terminal_exit.unique_name >> \o
      [i \in 1..Len(seen_entrances) |-> seen_entrances[i].entrance_name]

\* Lines 331-336: the path of one terminal exit.
NestedPath(terminal_exit) ==
  LET zone_entrance == DictGet(done_exits_to_entrances, terminal_exit)
      seen_entrances ==
        get_all_entrances_on_path_to_entrance(zone_entrance, done_exits_to_entrances)
                                                                     .seen_entrances
  IN  Reverse(<< terminal_exit.unique_name >> \o
              [i \in 1..Len(seen_entrances) |-> seen_entrances[i].entrance_name])

\* Line 329.
TerminalExits == SelectSeq(relevant_exits, LAMBDA ex : ~In(ex, DUNGEON_EXITS))

\* Line 331 is a KeyError for a terminal exit that has no entrance.
TerminalExitsBeforeKeyError ==
  LET missing == { i \in 1..Len(TerminalExits) :
                     ~DictHas(done_exits_to_entrances, TerminalExits[i]) }
  IN  IF missing = {} THEN TerminalExits
      ELSE SubSeq(TerminalExits, 1,
                  (CHOOSE i \in missing : \A j \in missing : i <= j) - 1)

\* Lines 328-337.
NestedEntrancePaths ==
  [i \in 1..Len(TerminalExitsBeforeKeyError) |->
     NestedPath(TerminalExitsBeforeKeyError[i])]

\* Lines 299-324 from a given island table and list of calls, with self.dry_run
\* as given.
AfterLoopFrom(island, calls, dry_run) ==
  LET st0 == [island |-> island, calls |-> calls, error |-> NoError,
              dry_run |-> dry_run, order |-> << >>]
      st1 == AttributeIslands(1, st0)
  IN  IF include.include_bosses THEN WarpOutOfBosses(1, st1)
      ELSE IF include.include_dungeons /\ st1.error = NoError
      THEN WarpOutOfDungeonBosses(1, st1)
      ELSE st1

\* Lines 299-324 on the tables as the loop left them.
AfterLoop ==
  AfterLoopFrom(dungeon_and_cave_island_locations, stage_data_calls, options.dry_run)

\* The effects of lines 299-337 in the order the code has them.
FinishOrder ==
  LET st == AfterLoop
  IN  st.order
        \o (IF include.include_bosses /\ st.error = NoError
            THEN << Effect("paths", None, None) >> ELSE << >>)

FinishPass ==
  /\ pc = "loop"
  /\ relevant_entrances = << >>
  /\ LET st == AfterLoop
         paths_error ==
           IF include.include_bosses /\ st.error = NoError
              /\ TerminalExitsBeforeKeyError # TerminalExits
           THEN ResolverError("keyerror") ELSE st.error
     IN  /\ dungeon_and_cave_island_locations' = st.island
         /\ stage_data_calls' = st.calls
         /\ error' = IF paths_error # NoError THEN paths_error ELSE error
         /\ pc' = IF paths_error # NoError THEN "raised"
                  ELSE IF passes = << >> THEN "done" ELSE "call"
         /\ nested_entrance_paths' =
              IF include.include_bosses /\ st.error = NoError
              THEN NestedEntrancePaths ELSE nested_entrance_paths
  /\ UNCHANGED << options, catalog, passes, include, relevant_entrances,
                  relevant_exits, remaining_exits,
                  doing_progress_entrances_for_dungeons_and_caves_only_start,
                  safety_entrance, exit_names_with_no_requirements,
                  done_entrances_to_exits, done_exits_to_entrances,
                  entrance_connections, pass_start, deferred, rng_calls, returned >>

-----------------------------------------------------------------------------
(* Initial states: the options of one run and the abridged cave registries. *)

OptionSpace ==
  [ randomize_entrances : EntranceRandomizerOptions \cup { "Disabled" },
    race_mode : BOOLEAN,
    dungeons_and_caves_only_start : BOOLEAN,
    progression_dungeons : BOOLEAN,
    progression_puzzle_secret_caves : BOOLEAN,
    progression_combat_secret_caves : BOOLEAN,
    progression_savage_labyrinth : BOOLEAN,
    dry_run : BOOLEAN ]

Caves(entrance_indexes, exit_indexes) ==
  [ SECRET_CAVE_ENTRANCES |->
      [i \in 1..Len(entrance_indexes) |-> CAVE_ENTRANCE_POOL[entrance_indexes[i]]],
    SECRET_CAVE_EXITS |->
      [i \in 1..Len(exit_indexes) |-> CAVE_EXIT_POOL[exit_indexes[i]]] ]

InitRun(opts, caves) ==
  /\ options = opts
  /\ catalog = caves
  /\ pc = "start"
  /\ passes = << >>
  /\ include = NoPass
  /\ relevant_entrances = << >>
  /\ relevant_exits = << >>
  /\ remaining_exits = << >>
  /\ doing_progress_entrances_for_dungeons_and_caves_only_start = FALSE
  /\ safety_entrance = None
  /\ exit_names_with_no_requirements = << >>
  /\ done_entrances_to_exits = << >>
  /\ done_exits_to_entrances = << >>
  /\ entrance_connections = << >>
  /\ dungeon_and_cave_island_locations = << >>
  /\ nested_entrance_paths = << >>
  /\ stage_data_calls = << >>
  /\ error = NoError
  /\ pass_start = [entrance_connections |-> << >>,
                   dungeon_and_cave_island_locations |-> << >>,
                   stage_data_calls |-> 0]
  /\ deferred = {}
  /\ rng_calls = << >>
  /\ returned = NoCall

AnyProgression(opts) ==
  \/ opts.progression_dungeons
  \/ opts.progression_puzzle_secret_caves
  \/ opts.progression_combat_secret_caves
  \/ opts.progression_savage_labyrinth

\* The progression flags are read only under dungeons_and_caves_only_start
\* (lines 184-190 and 205-224), so runs without it are taken with the flags off,
\* and a restricted start is one where at least one of them is on.
\* progression_savage_labyrinth is read only in a disjunction with the two other
\* cave flags (lines 187-189 and 212-214), so it is taken on only when they are off.
Options ==
  { opts \in OptionSpace :
      /\ opts.dungeons_and_caves_only_start = AnyProgression(opts)
      /\ opts.progression_savage_labyrinth
           => ~(opts.progression_puzzle_secret_caves
                \/ opts.progression_combat_secret_caves) }

\* An option set the abridged registries can stand for: the full registries hold a
\* no-requirement cave entrance and no-requirement puzzle and combat exits, so a flag
\* that asks for one is taken only when the abridgement kept one.
Keeps(caves, opts) ==
  /\ (opts.progression_puzzle_secret_caves \/ opts.progression_combat_secret_caves
        \/ opts.progression_savage_labyrinth)
       => \E i \in 1..Len(caves.SECRET_CAVE_ENTRANCES) :
            In(caves.SECRET_CAVE_ENTRANCES[i].entrance_name,
               SECRET_CAVE_ENTRANCE_NAMES_WITH_NO_REQUIREMENTS)
  /\ opts.progression_puzzle_secret_caves
       => \E i \in 1..Len(caves.SECRET_CAVE_EXITS) :
            In(caves.SECRET_CAVE_EXITS[i].unique_name,
               PUZZLE_SECRET_CAVE_EXIT_NAMES_WITH_NO_REQUIREMENTS)
  /\ opts.progression_combat_secret_caves
       => \E i \in 1..Len(caves.SECRET_CAVE_EXITS) :
            In(caves.SECRET_CAVE_EXITS[i].unique_name,
               COMBAT_SECRET_CAVE_EXIT_NAMES_WITH_NO_REQUIREMENTS)

\* The first NumCaves caves of the pools: Pawprint Isle (a no-requirement entrance)
\* and the Chuchu Cave (a no-requirement puzzle exit) first.
FirstCaves == Caves([i \in 1..NumCaves |-> i], [i \in 1..NumCaves |-> i])

Init ==
  \E opts \in Options :
    /\ ~opts.dry_run
    /\ Keeps(FirstCaves, opts)
    /\ InitRun(opts, FirstCaves)

Next ==
  \/ randomize_entrances
  \/ BeginPass
  \/ Defer
  \/ Place
  \/ RaiseInLoop
  \/ FinishPass

Spec == Init /\ [][Next]_vars

-----------------------------------------------------------------------------
(* Race-mode runs over a registry whose cave shares Dragon Roost Island     *)
(* with a dungeon entrance.  The full registry has five dungeon exits and   *)
(* at most three entrances can take one before the Dragon Roost pair (the   *)
(* safety entrance, one of the Pawprint pair, one boss entrance); with the  *)
(* two dungeons kept here that margin exists only when nothing but a boss   *)
(* entrance precedes the pair, hence no Pawprint cave in this registry.     *)

RaceCaves == Caves([i \in 1..NumCaves |-> i + 1], [i \in 1..NumCaves |-> i])

InitRace ==
  \E opts \in Options :
    /\ opts.race_mode
    /\ ~opts.dry_run
    /\ Keeps(RaceCaves, opts)
    /\ InitRun(opts, RaceCaves)

SpecRace == InitRace /\ [][Next]_vars

-----------------------------------------------------------------------------
(* Properties.                                                             *)

\* A pass of randomize_one_set_of_entrances has run to its end.
PassCompleted == include # NoPass /\ pc \in {"call", "done"}
\* The main loop has emptied the queue (line 297 is next).
LoopFinished == pc = "loop" /\ relevant_entrances = << >>
\* A pass has ended, by returning or by raising.
PassEnded == include # NoPass /\ pc \in {"call", "done", "raised"}

SelectedEntrances == Range(RelevantEntrancesOf(include))
SelectedExits == Range(RelevantExitsOf(include))
DictValues(d) == { d[i].v : i \in 1..Len(d) }
DictIndex(d, k) == CHOOSE i \in 1..Len(d) : d[i].k = k
IsDungeonOrBossExit(zone_exit) == In(zone_exit, DUNGEON_EXITS \o BOSS_EXITS)

\* C1: when a pass completes without raising, the recorded connections are a
\* bijection between the selected entrances and the selected exits: every selected
\* entrance has exactly one exit, every selected exit is the target of exactly one
\* entrance, nothing outside the selection appears, and entrance_connections
\* carries the same pairs by name.
C1_ConnectionsAreABijection ==
  PassCompleted =>
    /\ DictKeys(done_entrances_to_exits) = SelectedEntrances
    /\ DictValues(done_entrances_to_exits) = SelectedExits
    /\ \A i, j \in 1..Len(done_entrances_to_exits) :
         i # j => /\ done_entrances_to_exits[i].k # done_entrances_to_exits[j].k
                  /\ done_entrances_to_exits[i].v # done_entrances_to_exits[j].v
    /\ Len(done_exits_to_entrances) = Len(done_entrances_to_exits)
    /\ \A i \in 1..Len(done_entrances_to_exits) :
         LET item == done_entrances_to_exits[i]
         IN  /\ DictHas(done_exits_to_entrances, item.v)
             /\ DictGet(done_exits_to_entrances, item.v) = item.k
             /\ DictHas(entrance_connections, item.k.entrance_name)
             /\ DictGet(entrance_connections, item.k.entrance_name) = item.v.unique_name

\* A pass over dungeons, bosses and caves together has completed.
C1_Witness ==
  /\ PassCompleted
  /\ include = Pass(TRUE, TRUE, TRUE)
  /\ Len(done_entrances_to_exits)
       = Len(DUNGEON_ENTRANCES) + Len(BOSS_ENTRANCES) + Len(SECRET_CAVE_ENTRANCES)

\* C2: in every restricted-start pass that completes, the exit connected to the
\* safety entrance is in the allow-list exit_names_with_no_requirements, for every
\* category selection, dungeons with progression_dungeons included.
C2_SafetyEntranceLeadsToNoRequirementsExit ==
  (PassCompleted /\ doing_progress_entrances_for_dungeons_and_caves_only_start) =>
    /\ DictHas(done_entrances_to_exits, safety_entrance)
    /\ In(DictGet(done_entrances_to_exits, safety_entrance).unique_name,
          exit_names_with_no_requirements)

\* C3: in race mode, at every state during and after assignment, of two distinct
\* placed entrances on the same island at most one is connected to a dungeon or
\* boss exit.
C3_OneDungeonPerIslandInRaceMode ==
  options.race_mode =>
    \A i, j \in 1..Len(done_entrances_to_exits) :
      LET a == done_entrances_to_exits[i]
          b == done_entrances_to_exits[j]
      IN  (i # j /\ a.k.island_name # None /\ a.k.island_name = b.k.island_name)
            => ~(IsDungeonOrBossExit(a.v) /\ IsDungeonOrBossExit(b.v))

\* Both Dragon Roost Island entrances are placed, one into a dungeon, the other
\* (filtered at lines 282-286) into a cave.
C3_Witness ==
  /\ options.race_mode
  /\ \E i, j \in 1..Len(done_entrances_to_exits) :
       LET a == done_entrances_to_exits[i]
           b == done_entrances_to_exits[j]
       IN  /\ i < j
           /\ a.k.island_name # None
           /\ a.k.island_name = b.k.island_name
           /\ In(a.v, DUNGEON_EXITS)
           /\ ~IsDungeonOrBossExit(b.v)

\* C4 as stated: a boss exit is chosen only when no non-boss exit (dungeon or
\* secret cave) remains unplaced, in every category selection.
C4_BossExitOnlyWhenNothingElseRemains ==
  (\E i \in 1..Len(done_entrances_to_exits) :
     In(done_entrances_to_exits[i].v, BOSS_EXITS))
    => \A j \in 1..Len(remaining_exits) : In(remaining_exits[j], BOSS_EXITS)

\* C4 amended: a boss exit is chosen only when no dungeon exit remains unplaced;
\* secret cave exits may still be unplaced.
C4_BossExitOnlyWhenNoDungeonExitRemains ==
  (\E i \in 1..Len(done_entrances_to_exits) :
     In(done_entrances_to_exits[i].v, BOSS_EXITS))
    => \A j \in 1..Len(remaining_exits) : ~In(remaining_exits[j], DUNGEON_EXITS)

\* A boss exit has been placed while a secret cave exit is still unplaced.
C4_Witness ==
  /\ \E i \in 1..Len(done_entrances_to_exits) :
       In(done_entrances_to_exits[i].v, BOSS_EXITS)
  /\ \E j \in 1..Len(remaining_exits) : In(remaining_exits[j], SECRET_CAVE_EXITS)

\* C5: once the loop of a pass has placed every entrance (and so after any
\* completed pass), for every selected entrance the path to the sea terminates:
\* get_all_entrances_on_path_to_entrance neither raises nor returns None, and the
\* last entrance of the path has an island.
C5_NoCycle ==
  (LoopFinished \/ PassCompleted) =>
    \A zone_entrance \in SelectedEntrances :
      LET path == get_all_entrances_on_path_to_entrance(zone_entrance,
                                                        done_exits_to_entrances)
      IN  /\ path.status = "ok"
          /\ path.seen_entrances # << >>
          /\ path.seen_entrances[Len(path.seen_entrances)].island_name # None

\* The loop has ended after postponing a boss entrance that now resolves through
\* another nested entrance.
C5_Witness ==
  /\ LoopFinished
  /\ \E zone_entrance \in deferred :
       Len(get_all_entrances_on_path_to_entrance(zone_entrance,
             done_exits_to_entrances).seen_entrances) >= 3

\* C6: when the pass pops an entrance whose candidate exit set is empty, the step
\* it takes raises an error that names exactly that entrance, and the pass has
\* issued no stage-data mutation call up to that moment.
C6_EmptyCandidatesRaiseNamingTheEntrance ==
  [][ ( /\ pc = "loop"
        /\ relevant_entrances # << >>
        /\ PoppedOutermost.status = "ok"
        /\ PossibleRemainingExits(PoppedEntrance) = << >> )
      => ( /\ pc' = "raised"
           /\ error' = [message |-> "No valid exits to place for entrance",
                        entrance_name |-> Head(relevant_entrances).entrance_name]
           /\ Len(stage_data_calls') = pass_start.stage_data_calls ) ]_vars

\* A pass has raised for want of a candidate after placing other entrances.
C6_Witness ==
  /\ pc = "raised"
  /\ error.message = "No valid exits to place for entrance"
  /\ error.entrance_name # None
  /\ done_entrances_to_exits # << >>
  /\ Len(stage_data_calls) = pass_start.stage_data_calls

\* C7: if randomize_entrances raises, for any option value, the two-pass
\* "Separately" values included, no stage-data mutation call was issued during
\* that call.
C7_NoStageDataCallWhenRaised ==
  pc = "raised" => stage_data_calls = << >>

\* C8: after a pass has raised, entrance_connections and
\* dungeon_and_cave_island_locations equal their values from before the pass.
C8_FailedPassLeavesTablesUntouched ==
  (pc = "raised" /\ include # NoPass) =>
    /\ entrance_connections = pass_start.entrance_connections
    /\ dungeon_and_cave_island_locations
         = pass_start.dungeon_and_cave_island_locations

\* C10: in a pass over dungeons and bosses, every boss entrance that was popped
\* before its owning dungeon exit had an entrance, and so was re-queued, has been
\* assigned an exit by the time the pass ends, at a later step than the one that
\* placed its owning dungeon exit.
C10_DeferredEntrancesAreAssigned ==
  (PassEnded /\ include.include_dungeons /\ include.include_bosses) =>
    \A zone_entrance \in deferred :
      LET dungeon_start_exit ==
            get_dungeon_start_exit_leading_to_nested_entrance(zone_entrance)
      IN  /\ DictHas(done_entrances_to_exits, zone_entrance)
          /\ DictHas(done_exits_to_entrances, dungeon_start_exit)
          /\ DictIndex(done_entrances_to_exits, zone_entrance)
               > DictIndex(done_entrances_to_exits,
                           DictGet(done_exits_to_entrances, dungeon_start_exit))

\* The entrances still in the queue whose chain is complete under the connections
\* placed so far.
PendingResolved ==
  { i \in 1..Len(relevant_entrances) :
      get_all_entrances_on_path_to_entrance(relevant_entrances[i],
                                            done_exits_to_entrances).status # "none" }

\* C11: the main loop terminates: no reachable state of the loop has a non-empty
\* queue in which every pending entrance has an incomplete resolution, so line 245
\* cannot postpone forever (after at most Len(relevant_entrances) postponements an
\* entrance is placed or the pass raises).
C11_SomePendingEntranceResolves ==
  (pc = "loop" /\ relevant_entrances # << >>) => PendingResolved # {}

\* An entrance has been postponed and the one now at the head of the queue is
\* about to be, while another one behind it resolves.
C11_Witness ==
  /\ pc = "loop"
  /\ relevant_entrances # << >>
  /\ PoppedOutermost.status = "none"
  /\ deferred # {}
  /\ PendingResolved # {}

\* The last entrance of the chain that starts at the entrance connected to zone_exit.
EndOfChain(zone_exit) ==
  LET path == get_all_entrances_on_path_to_entrance(
                DictGet(done_exits_to_entrances, zone_exit), done_exits_to_entrances)
  IN  path.seen_entrances[Len(path.seen_entrances)]

\* C12: after a completed pass, dungeon_and_cave_island_locations has an entry for
\* the zone name of every selected exit, and its value is the island name, not
\* None, of the outermost entrance at the end of the nesting chain that starts at
\* the entrance connected to that exit; after a completed run this holds of the
\* exits of every pass.
C12_EveryExitHasItsIsland ==
  /\ PassCompleted =>
       \A zone_exit \in SelectedExits :
         /\ DictHas(dungeon_and_cave_island_locations, zone_exit.zone_name)
         /\ DictGet(dungeon_and_cave_island_locations, zone_exit.zone_name) # None
         /\ DictGet(dungeon_and_cave_island_locations, zone_exit.zone_name)
              = EndOfChain(zone_exit).island_name
  /\ pc = "done" =>
       \A i \in 1..Len(PassesOf(options.randomize_entrances)) :
         \A zone_exit \in Range(RelevantExitsOf(PassesOf(options.randomize_entrances)[i])) :
           /\ DictHas(dungeon_and_cave_island_locations, zone_exit.zone_name)
           /\ DictGet(dungeon_and_cave_island_locations, zone_exit.zone_name) # None

\* A pass has completed in which an exit is reached through a nested entrance.
C12_Witness ==
  /\ PassCompleted
  /\ \E zone_exit \in SelectedExits :
       /\ is_nested(DictGet(done_exits_to_entrances, zone_exit))
       /\ DictHas(dungeon_and_cave_island_locations, zone_exit.zone_name)

\* C13: after a completed pass over dungeons without bosses, every boss exit's zone
\* name has an entry in dungeon_and_cave_island_locations, equal to the island name
\* of the entrance connected to the dungeon exit whose boss_stage_name is that boss
\* exit's stage, and so equal to the entry of that dungeon's own zone.
C13_BossZoneFollowsItsDungeon ==
  (PassCompleted /\ include.include_dungeons /\ ~include.include_bosses) =>
    \A b \in 1..Len(BOSS_EXITS) :
      \E d \in 1..Len(DUNGEON_EXITS) :
        /\ DUNGEON_EXITS[d].boss_stage_name = BOSS_EXITS[b].stage_name
        /\ DictHas(dungeon_and_cave_island_locations, BOSS_EXITS[b].zone_name)
        /\ DictGet(dungeon_and_cave_island_locations, BOSS_EXITS[b].zone_name)
             = DictGet(done_exits_to_entrances, DUNGEON_EXITS[d]).island_name
        /\ DictGet(dungeon_and_cave_island_locations, BOSS_EXITS[b].zone_name)
             = DictGet(dungeon_and_cave_island_locations, DUNGEON_EXITS[d].zone_name)

\* A pass over dungeons without bosses has completed with Dragon Roost Cavern, and
\* so Gohma's arena, reached from another island than Dragon Roost Island.
C13_Witness ==
  /\ PassCompleted
  /\ include.include_dungeons
  /\ ~include.include_bosses
  /\ DictHas(dungeon_and_cave_island_locations, "Gohma Boss Arena")
  /\ DictGet(dungeon_and_cave_island_locations, "Gohma Boss Arena")
       # "Dragon Roost Island"

\* C14 as stated: within a pass every stage-data call comes after the last
\* entrance is placed, after dungeon_and_cave_island_locations holds an entry for
\* every exit of the pass, and after nested_entrance_paths is built.
C14_CallsComeAfterAllAttributionAndPaths ==
  /\ pc = "loop" => Len(stage_data_calls) = pass_start.stage_data_calls
  /\ LoopFinished =>
       LET order == FinishOrder
       IN  \A i, j \in 1..Len(order) :
             (order[i].effect = "call" /\ order[j].effect # "call") => j < i

\* C14 amended: within a pass every stage-data call comes after the last entrance
\* is placed; update_entrance_to_lead_to_exit for an exit comes after the island
\* entry of that exit's zone is written (and before the entries of the exits that
\* follow it); update_boss_warp_out_destination comes after the entries of all
\* selected exits are written; nested_entrance_paths is built after every call.
C14_CallsComeAfterTheLoopAndTheirOwnEntry ==
  /\ pc = "loop" => Len(stage_data_calls) = pass_start.stage_data_calls
  /\ LoopFinished =>
       LET order == FinishOrder
       IN  \A i \in 1..Len(order) :
             /\ order[i].call = "update_entrance_to_lead_to_exit"
                  => \E j \in 1..(i - 1) :
                       order[j] = Effect("island", None, order[i].zone_name)
             /\ order[i].call = "update_boss_warp_out_destination"
                  => \A zone_exit \in SelectedExits :
                       \E j \in 1..(i - 1) :
                         order[j] = Effect("island", None, zone_exit.zone_name)
             /\ order[i].effect = "paths" => i = Len(order)

\* The loop of a pass with bosses has ended and stage data is about to be edited:
\* the first call comes before the island entry of the second exit, and the paths
\* come last.
C14_Witness ==
  /\ LoopFinished
  /\ LET order == FinishOrder
     IN  /\ Len(order) >= 5
         /\ order[2].effect = "call"
         /\ order[3].effect = "island"
         /\ order[Len(order)].effect = "paths"

-----------------------------------------------------------------------------
(* Runs with self.dry_run set.                                             *)

InitDryRun ==
  \E opts \in Options :
    /\ opts.dry_run
    /\ Keeps(FirstCaves, opts)
    /\ InitRun(opts, FirstCaves)

SpecDryRun == InitDryRun /\ [][Next]_vars

\* C15: with dry_run set no stage-data call is issued, and a completed pass leaves
\* dungeon_and_cave_island_locations as lines 299-324 leave it with dry_run unset
\* from the same connections (which would have issued calls and raised nothing).
\* entrance_connections and nested_entrance_paths are written by lines 293 and
\* 326-337, which do not read dry_run.
C15_DryRunOnlySuppressesTheCalls ==
  options.dry_run =>
    /\ stage_data_calls = << >>
    /\ PassCompleted =>
         LET unset == AfterLoopFrom(pass_start.dungeon_and_cave_island_locations,
                                    << >>, FALSE)
         IN  /\ unset.error = NoError
             /\ unset.calls # << >>
             /\ dungeon_and_cave_island_locations = unset.island
             /\ include.include_bosses =>
                  /\ unset.error = AfterLoop.error
                  /\ nested_entrance_paths = NestedEntrancePaths

\* A dry run over dungeons, bosses and caves has completed.
C15_Witness ==
  /\ options.dry_run
  /\ PassCompleted
  /\ include = Pass(TRUE, TRUE, TRUE)
  /\ dungeon_and_cave_island_locations # << >>
  /\ nested_entrance_paths # << >>

-----------------------------------------------------------------------------
(* get_entrance_zone_for_item_location, lines 514-545, called once the     *)
(* entrances are randomized.  A location is its name together with what    *)
(* self.logic answers for it: zone_name is the first component of          *)
(* split_location_name_by_zone(location_name), is_dungeon_or_cave the      *)
(* answer of is_dungeon_or_cave(location_name).                            *)

ITEM_LOCATION_NAME_TO_EXIT_ZONE_NAME_OVERRIDES ==
  << [k |-> "Pawprint Isle - Wizzrobe Cave", v |-> "Pawprint Isle Side Isle"],
     [k |-> "Dragon Roost Cavern - Gohma Heart Container", v |-> "Gohma Boss Arena"],
     [k |-> "Forbidden Woods - Kalle Demos Heart Container",
      v |-> "Kalle Demos Boss Arena"],
     [k |-> "Tower of the Gods - Gohdan Heart Container", v |-> "Gohdan Boss Arena"],
     [k |-> "Earth Temple - Jalhalla Heart Container", v |-> "Jalhalla Boss Arena"],
     [k |-> "Wind Temple - Molgera Heart Container", v |-> "Molgera Boss Arena"] >>

Location(location_name, zone_name, is_dungeon_or_cave) ==
  [location_name |-> location_name, zone_name |-> zone_name,
   is_dungeon_or_cave |-> is_dungeon_or_cave]

\* The locations asked about: a boss location with an override, dungeon and cave
\* locations without one, and locations outside dungeons and caves, one of them
\* in the zone that bears a dungeon's name.
Locations ==
  { Location("Dragon Roost Cavern - Gohma Heart Container", "Dragon Roost Cavern", TRUE),
    Location("Dragon Roost Cavern - First Room", "Dragon Roost Cavern", TRUE),
    Location("Pawprint Isle - Chuchu Cave - Chest", "Pawprint Isle", TRUE),
    Location("Tower of the Gods - Sunken Treasure", "Tower of the Gods", FALSE),
    Location("Dragon Roost Island - Wind Shrine", "Dragon Roost Island", FALSE) }

\* Lines 523-526 without the override table.
NominalZoneName(location) == location.zone_name

\* Lines 523-526.
ExitZoneName(location) ==
  IF DictHas(ITEM_LOCATION_NAME_TO_EXIT_ZONE_NAME_OVERRIDES, location.location_name)
  THEN DictGet(ITEM_LOCATION_NAME_TO_EXIT_ZONE_NAME_OVERRIDES, location.location_name)
  ELSE location.zone_name

\* Lines 528-545.
EntranceZone(location) ==
  LET zone_name == ExitZoneName(location)
  IN  IF DictHas(dungeon_and_cave_island_locations, zone_name)
         /\ location.is_dungeon_or_cave
      THEN LET entrance_zone == DictGet(dungeon_and_cave_island_locations, zone_name)
           IN  IF entrance_zone = "Tower of the Gods"
               THEN "Tower of the Gods Sector"
               ELSE entrance_zone
      ELSE IF location.location_name = "Tower of the Gods - Sunken Treasure"
           THEN "Tower of the Gods Sector"
           ELSE zone_name

get_entrance_zone_for_item_location ==
  /\ pc = "done"
  /\ \E location \in Locations :
       returned' = [call |-> "get_entrance_zone_for_item_location",
                    arguments |-> location,
                    value |-> EntranceZone(location)]
  /\ UNCHANGED << options, catalog, pc, passes, include, relevant_entrances,
                  relevant_exits, remaining_exits,
                  doing_progress_entrances_for_dungeons_and_caves_only_start,
                  safety_entrance, exit_names_with_no_requirements,
                  done_entrances_to_exits, done_exits_to_entrances,
                  entrance_connections, dungeon_and_cave_island_locations,
                  nested_entrance_paths, stage_data_calls, error, pass_start,
                  deferred, rng_calls >>

\* Runs outside race mode, with an unrestricted start or a start restricted by
\* progression_savage_labyrinth alone, followed by questions about locations.
InitQuery ==
  \E opts \in Options :
    /\ ~opts.race_mode
    /\ ~opts.dry_run
    /\ ~opts.progression_dungeons
    /\ ~opts.progression_puzzle_secret_caves
    /\ ~opts.progression_combat_secret_caves
    /\ Keeps(FirstCaves, opts)
    /\ InitRun(opts, FirstCaves)

NextQuery == Next \/ get_entrance_zone_for_item_location

SpecQuery == InitQuery /\ [][NextQuery]_vars

\* C16: get_entrance_zone_for_item_location returns, with z the override-table
\* zone of the full location name if it has one and the nominal zone otherwise:
\* the island attributed to z, "Tower of the Gods" replaced by "Tower of the Gods
\* Sector", if z is a key of dungeon_and_cave_island_locations and the location is
\* a dungeon or cave location; otherwise z, except for "Tower of the Gods - Sunken
\* Treasure", which yields "Tower of the Gods Sector".  The call changes neither
\* the island table nor the connections.
C16_EntranceZoneOfALocation ==
  [][ returned' # returned =>
        LET location == returned'.arguments
            z == IF \E i \in 1..Len(ITEM_LOCATION_NAME_TO_EXIT_ZONE_NAME_OVERRIDES) :
                      ITEM_LOCATION_NAME_TO_EXIT_ZONE_NAME_OVERRIDES[i].k
                        = location.location_name
                 THEN DictGet(ITEM_LOCATION_NAME_TO_EXIT_ZONE_NAME_OVERRIDES,
                              location.location_name)
                 ELSE location.zone_name
            attributed == z \in DictKeys(dungeon_and_cave_island_locations)
                          /\ location.is_dungeon_or_cave
            island == DictGet(dungeon_and_cave_island_locations, z)
        IN  /\ returned'.call = "get_entrance_zone_for_item_location"
            /\ (attributed /\ island = "Tower of the Gods")
                 => returned'.value = "Tower of the Gods Sector"
            /\ (attributed /\ island # "Tower of the Gods")
                 => returned'.value = island
            /\ (~attributed
                /\ location.location_name = "Tower of the Gods - Sunken Treasure")
                 => returned'.value = "Tower of the Gods Sector"
            /\ (~attributed
                /\ location.location_name # "Tower of the Gods - Sunken Treasure")
                 => returned'.value = z
            /\ UNCHANGED << dungeon_and_cave_island_locations, entrance_connections,
                            nested_entrance_paths, stage_data_calls >> ]_vars

\* The heart container of Gohma, whose arena is looked up through the override
\* table, has been found to lie behind the entrance in the Tower of the Gods sector.
C16_Witness ==
  /\ returned.call = "get_entrance_zone_for_item_location"
  /\ returned.arguments.location_name = "Dragon Roost Cavern - Gohma Heart Container"
  /\ returned.value = "Tower of the Gods Sector"

\* C17: within a pass the random source is consumed in a fixed forward order: one
\* shuffle first, then one choice for the safety entrance exactly when the pass
\* restricts the start, then one choice for each placed entrance, in the order of
\* placement and never twice for the same entrance; postponing an entrance draws
\* nothing.
C17_RandomSourceIsConsumedForward ==
  (pc = "loop" \/ (PassEnded /\ error.message # "IndexError")) =>
    LET before == IF doing_progress_entrances_for_dungeons_and_caves_only_start
                  THEN 2 ELSE 1
    IN  /\ Len(rng_calls) = before + Len(done_entrances_to_exits)
        /\ rng_calls[1].call = "shuffle"
        /\ \A i \in 2..Len(rng_calls) : rng_calls[i].call = "choice"
        /\ doing_progress_entrances_for_dungeons_and_caves_only_start
             => rng_calls[2].for = "safety_entrance"
        /\ \A i \in 1..Len(done_entrances_to_exits) :
             rng_calls[before + i].for = done_entrances_to_exits[i].k.entrance_name
        /\ \A i, j \in 1..Len(done_entrances_to_exits) :
             rng_calls[before + i].for = rng_calls[before + j].for => i = j

\* A pass with a restricted start has postponed an entrance and placed two.
C17_Witness ==
  /\ pc = "loop"
  /\ doing_progress_entrances_for_dungeons_and_caves_only_start
  /\ deferred # {}
  /\ Len(done_entrances_to_exits) >= 2
  /\ Len(rng_calls) = 2 + Len(done_entrances_to_exits)

\* The connections recorded before the i-th placement of the pass.
PlacedBefore(i) == SubSeq(done_exits_to_entrances, 1, i - 1)

\* C18: an entrance is given an exit only when its chain resolves completely under
\* the connections placed before it: every nested entrance of the chain has an
\* owning dungeon exit that already has a recorded entrance, which is the next
\* entrance of the chain, and the chain ends at an entrance with an island; an
\* entrance with an island is never postponed.
C18_AssignedOnlyWhenTheChainResolves ==
  (pc = "loop" \/ PassEnded) =>
    /\ \A i \in 1..Len(done_exits_to_entrances) :
         LET placed == PlacedBefore(i)
             path == get_all_entrances_on_path_to_entrance(
                       done_exits_to_entrances[i].v, placed)
             chain == path.seen_entrances
         IN  /\ path.status = "ok"
             /\ chain # << >>
             /\ chain[1] = done_exits_to_entrances[i].v
             /\ chain[Len(chain)].island_name # None
             /\ \A j \in 1..(Len(chain) - 1) :
                  LET owning == get_dungeon_start_exit_leading_to_nested_entrance(
                                  chain[j])
                  IN  /\ chain[j].island_name = None
                      /\ \E n \in 1..Len(placed) :
                           placed[n].k = owning /\ placed[n].v = chain[j + 1]
    /\ \A zone_entrance \in deferred : zone_entrance.island_name = None

\* A postponed entrance has been placed, at the end of a chain of three entrances.
C18_Witness ==
  /\ pc = "loop"
  /\ \E i \in 1..Len(done_exits_to_entrances) :
       /\ done_exits_to_entrances[i].v \in deferred
       /\ Len(get_all_entrances_on_path_to_entrance(
                done_exits_to_entrances[i].v, PlacedBefore(i)).seen_entrances) >= 3

\* C20: the resolver never meets an entrance twice in a call the engine makes: no
\* pass raises "Entrances are in an infinite loop", and in no state of the main
\* loop or of the final step does the chain of a selected entrance, followed
\* through the connections recorded so far, come back to an entrance it has
\* already passed.
C20_ResolverNeverMeetsAnEntranceTwice ==
  /\ error.message # "Entrances are in an infinite loop"
  /\ (pc = "loop" \/ PassEnded) =>
       \A zone_entrance \in SelectedEntrances :
         get_all_entrances_on_path_to_entrance(
           zone_entrance, done_exits_to_entrances).status # "loop"

\* The entrance at the head of the queue is resolved through two other entrances.
C20_Witness ==
  /\ pc = "loop"
  /\ relevant_entrances # << >>
  /\ PoppedOutermost.status = "ok"
  /\ Len(get_all_entrances_on_path_to_entrance(
           PoppedEntrance, done_exits_to_entrances).seen_entrances) >= 3

-----------------------------------------------------------------------------
(* get_all_entrances_on_path_to_entrance as a function of its arguments:   *)
(* it is applied to every entrance of the catalog under every dictionary   *)
(* that gives some of the dungeon exits an entrance, whether or not the    *)
(* engine can build that dictionary.                                       *)

ResolverEntrances == Range(DUNGEON_ENTRANCES \o BOSS_ENTRANCES \o SECRET_CAVE_ENTRANCES)

\* The dictionaries with the dungeon exits of keys as keys, in the order of
\* DUNGEON_EXITS, and entrances of the catalog as values.
RECURSIVE DictsOver(_, _)
DictsOver(keys, values) ==
  IF keys = << >>
  THEN { << >> }
  ELSE LET rest == DictsOver(Tail(keys), values)
       IN  rest \cup { << [k |-> Head(keys), v |-> v] >> \o d :
                         v \in values, d \in rest }

InitResolver ==
  /\ options \in { opts \in Options : ~opts.dry_run /\ ~opts.race_mode
                                       /\ ~AnyProgression(opts)
                                       /\ opts.randomize_entrances = "Nested Dungeons" }
  /\ catalog = FirstCaves
  /\ pc = "resolver"
  /\ passes = << >>
  /\ include = NoPass
  /\ relevant_entrances = << >>
  /\ relevant_exits = << >>
  /\ remaining_exits = << >>
  /\ doing_progress_entrances_for_dungeons_and_caves_only_start = FALSE
  /\ safety_entrance = None
  /\ exit_names_with_no_requirements = << >>
  /\ done_entrances_to_exits = << >>
  /\ done_exits_to_entrances
       \in DictsOver(DUNGEON_EXITS,
                     Range(DUNGEON_ENTRANCES \o BOSS_ENTRANCES
                             \o FirstCaves.SECRET_CAVE_ENTRANCES))
  /\ entrance_connections = << >>
  /\ dungeon_and_cave_island_locations = << >>
  /\ nested_entrance_paths = << >>
  /\ stage_data_calls = << >>
  /\ error = NoError
  /\ pass_start = [entrance_connections |-> << >>,
                   dungeon_and_cave_island_locations |-> << >>,
                   stage_data_calls |-> 0]
  /\ deferred = {}
  /\ rng_calls = << >>
  /\ returned = NoCall

CallResolver ==
  /\ pc = "resolver"
  /\ \E zone_entrance \in ResolverEntrances :
       returned' = [call |-> "get_all_entrances_on_path_to_entrance",
                    arguments |-> zone_entrance,
                    value |-> get_all_entrances_on_path_to_entrance(
                                zone_entrance, done_exits_to_entrances)]
  /\ UNCHANGED << options, catalog, pc, passes, include, relevant_entrances,
                  relevant_exits, remaining_exits,
                  doing_progress_entrances_for_dungeons_and_caves_only_start,
                  safety_entrance, exit_names_with_no_requirements,
                  done_entrances_to_exits, done_exits_to_entrances,
                  entrance_connections, dungeon_and_cave_island_locations,
                  nested_entrance_paths, stage_data_calls, error, pass_start,
                  deferred, rng_calls >>

NextResolver == CallResolver

SpecResolver == InitResolver /\ [][NextResolver]_vars

\* The entrances reached from the entrances of S by going, from a nested entrance
\* whose owning dungeon exit is a key of connections, to the entrance recorded for
\* that exit.
RECURSIVE ReachedFrom(_, _)
ReachedFrom(S, connections) ==
  LET next == { DictGet(connections,
                        get_dungeon_start_exit_leading_to_nested_entrance(x)) :
                  x \in { y \in S :
                            /\ y.island_name = None
                            /\ get_dungeon_start_exit_leading_to_nested_entrance(y)
                                 \in DictKeys(connections) } }
  IN  IF next \subseteq S THEN S ELSE ReachedFrom(S \cup next, connections)

\* Some nested entrance reached from e has an owning dungeon exit without an entry.
OwningExitMissing(e, connections) ==
  \E x \in ReachedFrom({e}, connections) :
    /\ x.island_name = None
    /\ get_dungeon_start_exit_leading_to_nested_entrance(x) \notin DictKeys(connections)

\* Every owning exit on the way has an entry and no entrance with an island is
\* reached: the chain from e comes back to an entrance it has passed.
ChainComesBack(e, connections) ==
  /\ ~OwningExitMissing(e, connections)
  /\ \A x \in ReachedFrom({e}, connections) : x.island_name = None

\* chain starts at e, goes at each step to the entrance connected to the owning
\* dungeon exit of the previous one, and only its last entrance has an island.
IsChainToTheSea(chain, e, connections) ==
  /\ chain # << >>
  /\ chain[1] = e
  /\ chain[Len(chain)].island_name # None
  /\ \A j \in 1..(Len(chain) - 1) :
       LET owning == get_dungeon_start_exit_leading_to_nested_entrance(chain[j])
       IN  /\ chain[j].island_name = None
           /\ \E n \in 1..Len(connections) :
                connections[n].k = owning /\ connections[n].v = chain[j + 1]

ResolverReturned == returned.call = "get_all_entrances_on_path_to_entrance"

PassesOfRun == PassesOf(options.randomize_entrances)
ExitsOfRun ==
  UNION { Range(RelevantExitsOf(PassesOfRun[i])) : i \in 1..Len(PassesOfRun) }
BossPassesOfRun == { i \in 1..Len(PassesOfRun) : PassesOfRun[i].include_bosses }

BossEntranceNames == { BOSS_ENTRANCES[i].entrance_name : i \in 1..Len(BOSS_ENTRANCES) }

\* path runs from the overworld to terminal_exit: it starts with the name of an
\* entrance that has an island, every later entrance is the boss entrance of the
\* dungeon the entrance before it leads to, and the last entrance leads to
\* terminal_exit, whose name ends the path.
RunsFromTheOverworldTo(path, terminal_exit) ==
  /\ Len(path) >= 2
  /\ path[Len(path)] = terminal_exit.unique_name
  /\ DictHas(entrance_connections, path[Len(path) - 1])
  /\ DictGet(entrance_connections, path[Len(path) - 1]) = terminal_exit.unique_name
  /\ path[1] \notin BossEntranceNames
  /\ \A j \in 2..(Len(path) - 1) :
       /\ path[j] \in BossEntranceNames
       /\ DictHas(entrance_connections, path[j - 1])
       /\ DictGet(entrance_connections, path[j - 1]) = dungeon_name_of[path[j]]

\* nested_entrance_paths holds one path for each exit of terminal_exits, and
\* nothing else.
OnePathForEachOf(terminal_exits) ==
  /\ Len(nested_entrance_paths) = Cardinality(terminal_exits)
  /\ \A terminal_exit \in terminal_exits :
       \E i \in 1..Len(nested_entrance_paths) :
         /\ RunsFromTheOverworldTo(nested_entrance_paths[i], terminal_exit)
         /\ \A j \in 1..Len(nested_entrance_paths) :
              nested_entrance_paths[j][Len(nested_entrance_paths[j])]
                = terminal_exit.unique_name => j = i

\* C21 as stated: after every completed run nested_entrance_paths holds exactly one
\* path for every selected exit that is not a dungeon exit, running from the
\* outermost entrance through the nested entrances to the terminal exit.
C21_OnePathForEveryTerminalExit ==
  pc = "done" =>
    OnePathForEachOf({ ex \in ExitsOfRun : ~In(ex, DUNGEON_EXITS) })

\* C21, amended: after a completed run one of whose passes includes bosses,
\* nested_entrance_paths holds exactly one path for every exit selected by that
\* pass that is not a dungeon exit, running from the outermost entrance through
\* the nested entrances to the terminal exit; a pass without bosses builds no path
\* and leaves nested_entrance_paths as it was, so a run with no such pass leaves it
\* empty and the secret cave exits of a separate cave pass have no path.
C21_OnePathForEveryTerminalExitOfABossPass ==
  pc = "done" =>
    /\ BossPassesOfRun = {} => nested_entrance_paths = << >>
    /\ \A i \in BossPassesOfRun :
         OnePathForEachOf({ ex \in Range(RelevantExitsOf(PassesOfRun[i])) :
                              ~In(ex, DUNGEON_EXITS) })

\* A run over dungeons, bosses and caves together has completed with a path of
\* four names: an island entrance, two boss entrances and the terminal exit.
C21_Witness ==
  /\ pc = "done"
  /\ options.randomize_entrances = "Nested Dungeons & Secret Caves (Together)"
  /\ \E i \in 1..Len(nested_entrance_paths) : Len(nested_entrance_paths[i]) >= 4
  /\ \E i \in 1..Len(nested_entrance_paths) :
       \E j \in 1..Len(SECRET_CAVE_EXITS) :
         nested_entrance_paths[i][Len(nested_entrance_paths[i])]
           = SECRET_CAVE_EXITS[j].unique_name

-----------------------------------------------------------------------------
(* The reorder of lines 192-203 as a function of the shuffled list: it is  *)
(* applied to every order the shuffle of line 181 can leave, for every     *)
(* pass of every option value, in and outside race mode.                   *)

InitReorder ==
  /\ options \in { opts \in Options : ~opts.dry_run /\ ~AnyProgression(opts)
                                       /\ opts.randomize_entrances # "Disabled" }
  /\ catalog = RaceCaves
  /\ pc = "reorder"
  /\ passes = << >>
  /\ include \in Range(PassesOf(options.randomize_entrances))
  /\ relevant_entrances
       \in Shuffles((IF include.include_dungeons THEN DUNGEON_ENTRANCES ELSE << >>)
                    \o (IF include.include_bosses THEN BOSS_ENTRANCES ELSE << >>)
                    \o (IF include.include_caves
                        THEN RaceCaves.SECRET_CAVE_ENTRANCES ELSE << >>))
  /\ relevant_exits = << >>
  /\ remaining_exits = << >>
  /\ doing_progress_entrances_for_dungeons_and_caves_only_start = FALSE
  /\ safety_entrance = None
  /\ exit_names_with_no_requirements = << >>
  /\ done_entrances_to_exits = << >>
  /\ done_exits_to_entrances = << >>
  /\ entrance_connections = << >>
  /\ dungeon_and_cave_island_locations = << >>
  /\ nested_entrance_paths = << >>
  /\ stage_data_calls = << >>
  /\ error = NoError
  /\ pass_start = [entrance_connections |-> << >>,
                   dungeon_and_cave_island_locations |-> << >>,
                   stage_data_calls |-> 0]
  /\ deferred = {}
  /\ rng_calls = << >>
  /\ returned = NoCall

CallReorder ==
  /\ pc = "reorder"
  /\ returned' = [call |-> "reorder",
                  arguments |-> relevant_entrances,
                  value |-> ReorderInRaceMode(relevant_entrances)]
  /\ UNCHANGED << options, catalog, pc, passes, include, relevant_entrances,
                  relevant_exits, remaining_exits,
                  doing_progress_entrances_for_dungeons_and_caves_only_start,
                  safety_entrance, exit_names_with_no_requirements,
                  done_entrances_to_exits, done_exits_to_entrances,
                  entrance_connections, dungeon_and_cave_island_locations,
                  nested_entrance_paths, stage_data_calls, error, pass_start,
                  deferred, rng_calls >>

NextReorder == CallReorder

SpecReorder == InitReorder /\ [][NextReorder]_vars

\* The place of zone_entrance in a list without repetitions.
PlaceIn(list, zone_entrance) == CHOOSE i \in 1..Len(list) : list[i] = zone_entrance

\* Another entrance of the list has the island of zone_entrance.
SharesIsland(list, zone_entrance) ==
  \E i \in 1..Len(list) :
    list[i] # zone_entrance /\ list[i].island_name = zone_entrance.island_name

\* C22: in race mode the working list right after the reorder is a permutation of
\* the shuffled list in two parts: first every entrance for which another entrance
\* of the list has the same island, then all the others, each part in its shuffled
\* relative order; outside race mode the shuffled order is left as it is.
C22_SharedIslandsFirstInShuffledOrder ==
  returned.call = "reorder" =>
    LET shuffled == returned.arguments
        working == returned.value
    IN  /\ ~options.race_mode => working = shuffled
        /\ options.race_mode =>
             /\ Len(working) = Len(shuffled)
             /\ Range(working) = Range(shuffled)
             /\ \A a, b \in Range(shuffled) :
                  /\ (SharesIsland(shuffled, a) /\ ~SharesIsland(shuffled, b))
                       => PlaceIn(working, a) < PlaceIn(working, b)
                  /\ (SharesIsland(shuffled, a) = SharesIsland(shuffled, b)
                      /\ PlaceIn(shuffled, a) < PlaceIn(shuffled, b))
                       => PlaceIn(working, a) < PlaceIn(working, b)

\* In race mode the reorder has moved three or more entrances of shared islands
\* (the boss entrances among them) in front of an entrance that the shuffle had
\* put first.
C22_Witness ==
  /\ returned.call = "reorder"
  /\ options.race_mode
  /\ returned.value # returned.arguments
  /\ ~SharesIsland(returned.arguments, returned.arguments[1])
  /\ Cardinality({ e \in Range(returned.arguments) :
                     SharesIsland(returned.arguments, e) }) >= 3

\* The exit given at the last placement.
LastPlacedExit(done) == done[Len(done)].v

\* C23: at every placement of every run, a boss exit is chosen only when no dungeon
\* exit of the selected set is still unplaced, whichever entrance is being placed
\* and whether or not secret cave exits are still unplaced.
C23_BossExitsStartAfterTheDungeonExits ==
  [][ ( /\ pc = "loop"
        /\ Len(done_entrances_to_exits') = Len(done_entrances_to_exits) + 1
        /\ In(LastPlacedExit(done_entrances_to_exits'), BOSS_EXITS) )
      => \A j \in 1..Len(remaining_exits) : ~In(remaining_exits[j], DUNGEON_EXITS)
    ]_vars

\* In a run with a restricted start, the last placement has chosen a boss exit
\* while a secret cave exit was, and still is, unplaced.
C23_Witness ==
  /\ pc = "loop"
  /\ doing_progress_entrances_for_dungeons_and_caves_only_start
  /\ done_entrances_to_exits # << >>
  /\ In(LastPlacedExit(done_entrances_to_exits), BOSS_EXITS)
  /\ \E j \in 1..Len(remaining_exits) : In(remaining_exits[j], SECRET_CAVE_EXITS)
  /\ DictHas(done_entrances_to_exits, safety_entrance)

EntrancesOfRun ==
  UNION { Range(RelevantEntrancesOf(PassesOfRun[i])) : i \in 1..Len(PassesOfRun) }

\* C24: with race_mode off and the start not restricted, no pass raises, whatever
\* the option value, the shuffle and the choices: an entrance that is popped and
\* not postponed always has a candidate exit, and the run completes with every
\* selected entrance connected and every selected exit used.
C24_NoRaiseOutsideRaceModeAndRestrictedStart ==
  (~options.race_mode /\ ~options.dungeons_and_caves_only_start
     /\ options.randomize_entrances \in EntranceRandomizerOptions) =>
    /\ pc # "raised"
    /\ error = NoError
    /\ (pc = "loop" /\ relevant_entrances # << >> /\ PoppedOutermost.status = "ok")
         => PossibleRemainingExits(PoppedEntrance) # << >>
    /\ pc = "done" =>
         /\ DictKeys(entrance_connections)
              = { e.entrance_name : e \in EntrancesOfRun }
         /\ DictValues(entrance_connections) = { x.unique_name : x \in ExitsOfRun }

\* Outside race mode and without a restricted start, a run over dungeons, bosses
\* and caves together has completed after postponing a boss entrance.
C24_Witness ==
  /\ ~options.race_mode
  /\ ~options.dungeons_and_caves_only_start
  /\ options.randomize_entrances = "Nested Dungeons & Secret Caves (Together)"
  /\ pc = "done"
  /\ deferred # {}
  /\ Len(entrance_connections) = Cardinality(EntrancesOfRun)

\* C25: with race_mode on and the start not restricted, no pass raises "No valid
\* exits to place", whatever the option value (dungeons with bosses, and dungeons
\* with bosses and caves, included), the shuffle and the choices: with the
\* entrances of shared islands placed first, every later entrance has a candidate.
C25_NoRaiseInRaceModeWithoutRestrictedStart ==
  (options.race_mode /\ ~options.dungeons_and_caves_only_start) =>
    /\ error.message # "No valid exits to place for entrance"
    /\ (pc = "loop" /\ relevant_entrances # << >> /\ PoppedOutermost.status = "ok")
         => PossibleRemainingExits(PoppedEntrance) # << >>

\* C26: whenever a pass restricts the start, whichever progression flags made it
\* do so, the list of possible safety entrances is not empty (line 230 does not
\* fail) and the safety entrance, when it is popped, has at least one candidate
\* exit: no pass raises on its safety entrance.
C26_SafetyEntranceAlwaysHasACandidate ==
  /\ error.message # "IndexError"
  /\ (pc \in {"loop", "raised"} /\ include # NoPass
      /\ doing_progress_entrances_for_dungeons_and_caves_only_start) =>
       /\ In(safety_entrance, RelevantEntrancesOf(include))
       /\ (pc = "loop" /\ relevant_entrances # << >>
           /\ PoppedEntrance = safety_entrance)
            => PossibleRemainingExits(safety_entrance) # << >>
       /\ pc = "raised" => error.entrance_name # safety_entrance.entrance_name

Separately ==
  options.randomize_entrances
    \in { "Dungeons & Secret Caves (Separately)",
          "Nested Dungeons & Secret Caves (Separately)" }

NamesOfEntrances(list) == { list[i].entrance_name : i \in 1..Len(list) }
NamesOfExits(list) == { list[i].unique_name : i \in 1..Len(list) }

\* C27: with a "Separately" option value the two passes never mix categories: when
\* the run has completed, every dungeon entrance (and, in the nested variant, every
\* boss entrance) is connected to a dungeon or boss exit and every secret cave
\* entrance to a secret cave exit; and at every state of the second pass, and after
\* it, every connection and every island attribution the first pass wrote is still
\* in place.
C27_SeparatePassesDoNotMix ==
  Separately =>
    /\ pc = "done" =>
         \A i \in 1..Len(entrance_connections) :
           LET entrance_name == entrance_connections[i].k
               exit_name == entrance_connections[i].v
           IN  /\ entrance_name
                    \in NamesOfEntrances(DUNGEON_ENTRANCES \o BOSS_ENTRANCES)
                    => exit_name \in NamesOfExits(DUNGEON_EXITS \o BOSS_EXITS)
               /\ entrance_name \in NamesOfEntrances(SECRET_CAVE_ENTRANCES)
                    => exit_name \in NamesOfExits(SECRET_CAVE_EXITS)
    /\ pc = "done" =>
         /\ NamesOfEntrances(DUNGEON_ENTRANCES \o SECRET_CAVE_ENTRANCES)
              \subseteq DictKeys(entrance_connections)
         /\ options.randomize_entrances = "Nested Dungeons & Secret Caves (Separately)"
              => NamesOfEntrances(BOSS_ENTRANCES) \subseteq DictKeys(entrance_connections)
    /\ (include = Pass(FALSE, FALSE, TRUE) /\ pc \in {"loop", "done", "raised"}) =>
         /\ \A i \in 1..Len(pass_start.entrance_connections) :
              /\ DictHas(entrance_connections, pass_start.entrance_connections[i].k)
              /\ DictGet(entrance_connections, pass_start.entrance_connections[i].k)
                   = pass_start.entrance_connections[i].v
         /\ \A i \in 1..Len(pass_start.dungeon_and_cave_island_locations) :
              /\ DictHas(dungeon_and_cave_island_locations,
                         pass_start.dungeon_and_cave_island_locations[i].k)
              /\ DictGet(dungeon_and_cave_island_locations,
                         pass_start.dungeon_and_cave_island_locations[i].k)
                   = pass_start.dungeon_and_cave_island_locations[i].v

\* The run "Nested Dungeons & Secret Caves (Separately)" has completed: the second
\* pass found the connections and islands of the dungeons and bosses and has added
\* those of the caves.
C27_Witness ==
  /\ pc = "done"
  /\ options.randomize_entrances = "Nested Dungeons & Secret Caves (Separately)"
  /\ include = Pass(FALSE, FALSE, TRUE)
  /\ Len(pass_start.entrance_connections)
       = Len(DUNGEON_ENTRANCES) + Len(BOSS_ENTRANCES)
  /\ Len(pass_start.dungeon_and_cave_island_locations)
       = Len(DUNGEON_EXITS) + Len(BOSS_EXITS)
  /\ Len(entrance_connections)
       = Len(pass_start.entrance_connections) + Len(SECRET_CAVE_ENTRANCES)
  /\ Len(dungeon_and_cave_island_locations)
       = Len(pass_start.dungeon_and_cave_island_locations) + Len(SECRET_CAVE_EXITS)

\* The placements, in order, that connected a boss entrance to a dungeon exit.
BossEntrancesLeadingToADungeon ==
  { i \in 1..Len(done_entrances_to_exits) :
      /\ is_nested(done_entrances_to_exits[i].k)
      /\ In(done_entrances_to_exits[i].v, DUNGEON_EXITS) }

\* C28: in race mode the boss entrances, which have no island, count as sharing
\* one: at most one boss entrance is connected to a dungeon exit, and once one is,
\* no boss entrance placed later is connected to a dungeon or boss exit.
C28_BossEntrancesShareOneIslandInRaceMode ==
  options.race_mode =>
    /\ Cardinality(BossEntrancesLeadingToADungeon) <= 1
    /\ \A i \in BossEntrancesLeadingToADungeon :
         \A j \in (i + 1)..Len(done_entrances_to_exits) :
           is_nested(done_entrances_to_exits[j].k)
             => ~IsDungeonOrBossExit(done_entrances_to_exits[j].v)

\* In race mode a boss entrance leads to a dungeon and the boss entrance placed
\* after it has been given a secret cave.
C28_Witness ==
  /\ options.race_mode
  /\ \E i \in BossEntrancesLeadingToADungeon :
       \E j \in (i + 1)..Len(done_entrances_to_exits) :
         /\ is_nested(done_entrances_to_exits[j].k)
         /\ In(done_entrances_to_exits[j].v, SECRET_CAVE_EXITS)

\* The island the entrance of the i-th placement resolved to when it was placed.
IslandWhenPlaced(i) ==
  get_outermost_entrance_for_entrance(done_exits_to_entrances[i].v, PlacedBefore(i))
    .entrance.island_name

\* C29: resolution is stable under later placements: if in a state of a pass the
\* outermost entrance of a selected entrance resolves to O under the connections
\* of the pass, it resolves to O after every later step of the pass as well; and
\* when the pass completes, the island recorded for the zone of each exit is the
\* island its entrance resolved to at the moment it was placed.
C29_ResolutionIsStable ==
  [][ pc = "loop" =>
        /\ \A zone_entrance \in SelectedEntrances :
             LET outermost == get_outermost_entrance_for_entrance(
                                zone_entrance, done_exits_to_entrances)
             IN  outermost.status = "ok"
                   => get_outermost_entrance_for_entrance(
                        zone_entrance, done_exits_to_entrances') = outermost
        /\ pc' \in {"call", "done"} =>
             \A i \in 1..Len(done_exits_to_entrances) :
               /\ DictHas(dungeon_and_cave_island_locations',
                          done_exits_to_entrances[i].k.zone_name)
               /\ DictGet(dungeon_and_cave_island_locations',
                          done_exits_to_entrances[i].k.zone_name) = IslandWhenPlaced(i)
    ]_vars

\* A pass has completed in which a boss entrance was placed behind another boss
\* entrance, and other entrances were placed after it.
C29_Witness ==
  /\ PassCompleted
  /\ \E i \in 1..(Len(done_exits_to_entrances) - 1) :
       /\ is_nested(done_exits_to_entrances[i].v)
       /\ Len(get_all_entrances_on_path_to_entrance(
                done_exits_to_entrances[i].v, PlacedBefore(i)).seen_entrances) >= 3
       /\ DictGet(dungeon_and_cave_island_locations,
                  done_exits_to_entrances[i].k.zone_name) = IslandWhenPlaced(i)

\* C30: at every iteration boundary of the main loop, as many entrances are
\* pending as exits remain; the placed exits and the remaining exits are disjoint
\* and together are the selected exits; the pending and the placed entrances are
\* disjoint and together are the selected entrances; and done_entrances_to_exits
\* and done_exits_to_entrances are inverse maps of each other.
C30_LoopInvariants ==
  pc = "loop" =>
    LET pending == Range(relevant_entrances)
        remaining == Range(remaining_exits)
        placed_entrances == DictKeys(done_entrances_to_exits)
        placed_exits == DictKeys(done_exits_to_entrances)
    IN  /\ Len(relevant_entrances) = Len(remaining_exits)
        /\ Cardinality(pending) = Len(relevant_entrances)
        /\ Cardinality(remaining) = Len(remaining_exits)
        /\ placed_exits \cap remaining = {}
        /\ placed_exits \cup remaining = SelectedExits
        /\ pending \cap placed_entrances = {}
        /\ pending \cup placed_entrances = SelectedEntrances
        /\ Cardinality(placed_entrances) = Len(done_entrances_to_exits)
        /\ Cardinality(placed_exits) = Len(done_exits_to_entrances)
        /\ \A zone_entrance \in placed_entrances :
             LET zone_exit == DictGet(done_entrances_to_exits, zone_entrance)
             IN  /\ zone_exit \in placed_exits
                 /\ DictGet(done_exits_to_entrances, zone_exit) = zone_entrance
        /\ \A zone_exit \in placed_exits :
             LET zone_entrance == DictGet(done_exits_to_entrances, zone_exit)
             IN  /\ zone_entrance \in placed_entrances
                 /\ DictGet(done_entrances_to_exits, zone_entrance) = zone_exit

\* In the middle of a pass without a restricted start: entrances have been placed,
\* one has been postponed and is still pending, and exits remain.
C30_Witness ==
  /\ pc = "loop"
  /\ ~doing_progress_entrances_for_dungeons_and_caves_only_start
  /\ Len(done_entrances_to_exits) >= 2
  /\ Len(remaining_exits) >= 2
  /\ \E zone_entrance \in deferred : In(zone_entrance, relevant_entrances)

====
